---------------------------- MODULE Spec2Model ----------------------------
(***************************************************************************)
(* The request-interception pipeline and the lifecycle of the HTTP server  *)
(* of duartqx/reststd (the program with coloured log lines, panic recovery *)
(* and graceful shutdown: src/unnamed/part_000, lines 189-481).            *)
(* Spec is the server; SpecLogger and SpecObserver exercise the            *)
(* RequestLogger and the ResponseRecorderWriter on their own, with any     *)
(* sequence of calls (and strepeater, the padding of src/main.go).         *)
(*                                                                         *)
(* Strings are TLA+ strings; one character stands for one byte.  The byte  *)
(* ESC (0x1B) of the terminal colour sequences is written "^", and the two *)
(* bytes 0xC2 0xB5 of the micro sign are written "~u".                     *)
(***************************************************************************)
EXTENDS Integers, Sequences, FiniteSets, TLC

(***************************************************************************)
(* Bounds of the model.                                                    *)
(***************************************************************************)
\* ResponseWriter calls a business handler makes before it returns or panics
MaxOps == 2
\* SIGINTs the environment delivers in one run
MaxSignals == 1
\* calls (WriteHeader or Write) made on a ResponseRecorderWriter on its own
MaxCalls == 4


(***************************************************************************)
(* Inputs.                                                                 *)
(***************************************************************************)
\* the requests of one run, numbered in the order the server accepts them;
\* they are served concurrently
Requests == {1, 2}
Methods == {"GET"}
Paths == {"/nil_pointer", "/get_not_allowed", "/missing"}
\* status codes a business handler declares
HandlerCodes == {404}
\* values of time.Since(start), in nanoseconds
Durations == {52300}
\* inputs of the RequestLogger on its own: methods of 3, 7 and 8 bytes,
\* statuses on both sides of every class boundary, the widths String() uses
LoggerMethods == {"GET", "OPTIONS", "PROPFIND"}
LoggerPaths == {"/nil_pointer"}
Statuses == {-1, 0, 99, 100, 199, 200, 299, 300, 399, 400, 499, 500, 599}
LoggerDurations == {0, 52300, 1500000000}
Paddings == {0, 7, 12}
\* inputs of the ResponseRecorderWriter on its own
ObserverCodes == {200, 404, 500}

(***************************************************************************)
(* Formatting: fmt.Sprint of an int and of a time.Duration, strings.Repeat *)
(***************************************************************************)
Max(a, b) == IF a >= b THEN a ELSE b

RECURSIVE Repeat(_, _)
Repeat(s, count) == IF count <= 0 THEN "" ELSE s \o Repeat(s, count - 1)

Digit(d) == SubSeq("0123456789", d + 1, d + 1)

RECURSIVE FmtInt(_)
FmtInt(v) == IF v < 10 THEN Digit(v) ELSE FmtInt(v \div 10) \o Digit(v % 10)

\* fmt.Sprint(status) for the int status
SprintInt(v) == IF v < 0 THEN "-" \o FmtInt(0 - v) ELSE FmtInt(v)

\* the digits fmtFrac prints for v / 10^prec: trailing zeros are omitted
RECURSIVE FracDigits(_, _, _)
FracDigits(v, prec, print) ==
    IF prec = 0 THEN ""
    ELSE LET digit == v % 10
             p == print \/ digit # 0
         IN FracDigits(v \div 10, prec - 1, p) \o (IF p THEN Digit(digit) ELSE "")

FmtFrac(v, prec) ==
    LET ds == FracDigits(v, prec, FALSE)
    IN IF ds = "" THEN "" ELSE "." \o ds

Micro == "~u"

\* fmt.Sprint(since): time.Duration.String() of d >= 0 nanoseconds
SprintDuration(d) ==
    IF d < 1000000000
    THEN IF d = 0 THEN "0s"
         ELSE IF d < 1000 THEN FmtInt(d) \o "ns"
         ELSE IF d < 1000000
              THEN FmtInt(d \div 1000) \o FmtFrac(d, 3) \o Micro \o "s"
         ELSE FmtInt(d \div 1000000) \o FmtFrac(d, 6) \o "ms"
    ELSE LET secs == d \div 1000000000
             mins == secs \div 60
             hours == mins \div 60
         IN (IF hours > 0 THEN FmtInt(hours) \o "h" ELSE "")
            \o (IF mins > 0 THEN FmtInt(mins % 60) \o "m" ELSE "")
            \o FmtInt(secs % 60) \o FmtFrac(d, 9) \o "s"

(***************************************************************************)
(* The colour palette and the colour of a status.                          *)
(***************************************************************************)
colors ==
    [Red |-> "^[31m", Green |-> "^[32m", Yellow |-> "^[33m", Blue |-> "^[34m",
     Magenta |-> "^[35m", Cyan |-> "^[36m", Reset |-> "^[0m"]

\* GetStatusColor with the upper limit of every class included in it
GetStatusColorInclusive(status) ==
    IF status >= 100 /\ status <= 200 THEN colors.Cyan
    ELSE IF status >= 200 /\ status <= 300 THEN colors.Green
    ELSE IF status >= 300 /\ status <= 400 THEN colors.Yellow
    ELSE IF status >= 400 /\ status <= 500 THEN colors.Magenta
    ELSE colors.Red

GetStatusColor(status) ==
    IF status >= 100 /\ status < 200 THEN colors.Cyan
    ELSE IF status >= 200 /\ status < 300 THEN colors.Green
    ELSE IF status >= 300 /\ status < 400 THEN colors.Yellow
    ELSE IF status >= 400 /\ status < 500 THEN colors.Magenta
    ELSE colors.Red

(***************************************************************************)
(* RequestLogger: the builder and its two renderers.                       *)
(***************************************************************************)
NewRequestLoggerBuilder ==
    [method |-> "", status |-> 0, since |-> 0, path |-> "", color |-> ""]

SetMethod(rl, method) == [rl EXCEPT !.method = method]

SetPath(rl, path) == [rl EXCEPT !.path = path]

SetSince(rl, since) == [rl EXCEPT !.since = since]

SetStatus(rl, status) ==
    [rl EXCEPT !.status = status, !.color = GetStatusColor(status)]

\* pad that cuts the value to the width, as the verb %-7.7s would
padTruncates(padding, value) ==
    SubSeq(value \o Repeat(" ", padding), 1, padding)

\* value is the fmt.Sprint rendering of the padded value
pad(padding, value) ==
    LET r == Max(padding - Len(value), 0)
    IN value \o Repeat(" ", r)

\* the closure strepeater of LoggingMiddleware in src/main.go
strepeater(l, v) == v \o Repeat(" ", Max(l - Len(v), 0))

padAndColor(rl, padding, value) ==
    IF padding > 0
    THEN rl.color \o pad(padding, value) \o colors.Reset
    ELSE rl.color \o value \o colors.Reset

String(rl) ==
    "| " \o padAndColor(rl, 7, rl.method)
    \o " | " \o padAndColor(rl, 0, SprintInt(rl.status))
    \o " | " \o pad(12, SprintDuration(rl.since))
    \o " | " \o rl.path

(***************************************************************************)
(* A panic value: an error carries its Error() text; any other value       *)
(* (a string, a number, a struct) fails the type assertion err.(error).    *)
(***************************************************************************)
NilDereference ==
    [isError |-> TRUE,
     msg |-> "runtime error: invalid memory address or nil pointer dereference"]

\* the values a handler panics with
Faults == {NilDereference}

NoFault == [isError |-> FALSE, msg |-> ""]

\* panic values for PanicString on its own; msg is the text of the value:
\* Error() of an error, fmt.Sprint of any other value
EmptyError == [isError |-> TRUE, msg |-> ""]
StringValue == [isError |-> FALSE, msg |-> "boom"]
IntValue == [isError |-> FALSE, msg |-> "42"]
PanicValues == {NilDereference, EmptyError, StringValue, IntValue}

NoLine == [op |-> "none", text |-> "", padding |-> 0, value |-> "", err |-> NoFault]

\* PanicString with the elapsed column rendered as String() renders it
PanicStringWithSince(rl, err) ==
    LET stringer(e) ==
            LET coloredError == rl.color \o e \o colors.Reset
            IN "| " \o padAndColor(rl, 7, rl.method)
               \o " | " \o padAndColor(rl, 0, SprintInt(rl.status))
               \o " | " \o pad(12, SprintDuration(rl.since))
               \o " | " \o rl.path
               \o " " \o coloredError
    IN IF ~err.isError THEN stringer("Unknown") ELSE stringer(err.msg)

PanicString(rl, err) ==
    LET stringer(e) ==
            LET coloredError == rl.color \o e \o colors.Reset
            IN "| " \o padAndColor(rl, 7, rl.method)
               \o " | " \o padAndColor(rl, 0, SprintInt(rl.status))
               \o " |             | " \o rl.path
               \o " " \o coloredError
    IN IF ~err.isError THEN stringer("Unknown") ELSE stringer(err.msg)

(***************************************************************************)
(* The router of main: the registered routes, in registration order, the   *)
(* middlewares of router.Use, and the two error handlers, which are built  *)
(* with LoggerMiddleware alone.                                            *)
(***************************************************************************)
Routes ==
    << [name |-> "get_not_allowed", path |-> "/get_not_allowed",
        methods |-> {"POST", "PUT"}],
       [name |-> "nil_pointer", path |-> "/nil_pointer", methods |-> {"GET"}],
       [name |-> "index", path |-> "/", methods |-> {"GET"}] >>

\* mux's Router.Match over the routes of main
Match(method, path) ==
    IF \E i \in 1..Len(Routes) :
           Routes[i].path = path /\ method \in Routes[i].methods
    THEN "routed"
    ELSE IF \E i \in 1..Len(Routes) : Routes[i].path = path
         THEN "methodNotAllowed"
         ELSE "notFound"

\* router.Use(RecoveryMiddleware, LoggerMiddleware): the first is outermost
Middlewares == <<"RecoveryMiddleware", "LoggerMiddleware">>

\* the middlewares around the final handler of a request
Chain(route) ==
    IF route = "routed" THEN Middlewares ELSE <<"LoggerMiddleware">>

\* http.NotFound and the closure of MethodNotAllowedHandler: http.Error
\* declares the status and then prints the message
ErrorHandler(route) ==
    IF route = "notFound"
    THEN << [op |-> "WriteHeader", code |-> 404], [op |-> "Write", code |-> 0] >>
    ELSE << [op |-> "WriteHeader", code |-> 405], [op |-> "Write", code |-> 0] >>

(***************************************************************************)
(* The response sink (the http.ResponseWriter of the connection): the      *)
(* first WriteHeader is the one sent, a Write before any WriteHeader sends *)
(* 200, and a response finished with no header written is sent as 200.     *)
(***************************************************************************)
\* received: the WriteHeader calls made on the sink, in order
NewSink == [wroteHeader |-> FALSE, status |-> 0, body |-> 0, received |-> <<>>]

\* the header is sent, unless one was sent before
SinkSend(sink, status) ==
    IF sink.wroteHeader THEN sink
    ELSE [sink EXCEPT !.wroteHeader = TRUE, !.status = status]

SinkWriteHeader(sink, status) ==
    SinkSend([sink EXCEPT !.received = Append(@, status)], status)

SinkWrite(sink) ==
    LET s == SinkSend(sink, 200)
    IN [s EXCEPT !.body = @ + 1]

SinkFinish(sink) == SinkSend(sink, 200)

(***************************************************************************)
(* ResponseRecorderWriter: q is the request that owns the observer in      *)
(* q.writer (its Status) and the sink it embeds in q.sink.                 *)
(***************************************************************************)
NewResponseRecorderWriter(q) == [q EXCEPT !.writer = 200]

\* WriteHeader that forwards the call and records nothing
WriteHeaderNoRecord(q, status) ==
    [q EXCEPT !.sink = SinkWriteHeader(q.sink, status)]

\* WriteHeader that records the status only while no header has been sent
WriteHeaderRecordsFirst(q, status) ==
    [q EXCEPT !.writer = IF q.sink.wroteHeader THEN @ ELSE status,
              !.sink = SinkWriteHeader(q.sink, status)]

WriteHeader(q, status) ==
    [q EXCEPT !.writer = status, !.sink = SinkWriteHeader(q.sink, status)]

\* Write is promoted from the embedded ResponseWriter
Write(q) == [q EXCEPT !.sink = SinkWrite(q.sink)]

(***************************************************************************)
(* State.                                                                  *)
(***************************************************************************)
VARIABLES
    main,           \* the statement main is at
    listener,       \* the goroutine that runs srv.ListenAndServe
    listenErr,      \* the error ListenAndServe returned
    notified,       \* signal.Notify(c, os.Interrupt) has run
    sigChan,        \* signals buffered in c (capacity 1)
    signals,        \* SIGINTs delivered so far
    inShutdown,     \* srv.Shutdown has been called
    timedOut,       \* the context of Shutdown passed its deadline
    exit,           \* "running", or how the process ended
    req,            \* per request: the goroutine serving it
    logs,           \* lines written with log, per request (0: the process)
    sigintListening, \* history: a SIGINT was delivered while Listening
    builder,        \* a RequestLogger under construction
    setters,        \* the setters called on builder
    rendered,       \* what was rendered last, from builder
    recorder,       \* a ResponseRecorderWriter and the sink it embeds
    declared        \* the WriteHeader calls made on recorder, in order

\* the objects exercised on their own: a RequestLogger, a ResponseRecorderWriter
unit == <<builder, setters, rendered, recorder, declared>>

vars == <<main, listener, listenErr, notified, sigChan, signals, inShutdown,
          timedOut, exit, req, logs, sigintListening, unit>>

IdleRequest ==
    [pc |-> "idle", method |-> "", path |-> "", route |-> "", depth |-> 0,
     ops |-> 0, writer |-> 0, sink |-> NewSink, fault |-> NoFault,
     faulted |-> FALSE, recovered |-> 0, sigAfterStart |-> FALSE,
     passed |-> <<>>]

Init ==
    /\ main = "ParseFiles"
    /\ listener = "none"
    /\ listenErr = ""
    /\ notified = FALSE
    /\ sigChan = 0
    /\ signals = 0
    /\ inShutdown = FALSE
    /\ timedOut = FALSE
    /\ exit = "running"
    /\ req = [r \in Requests |-> IdleRequest]
    /\ logs = [i \in {0} \cup Requests |-> <<>>]
    /\ sigintListening = FALSE
    /\ builder = NewRequestLoggerBuilder
    /\ setters = {}
    /\ rendered = NoLine
    /\ recorder = [writer |-> 0, sink |-> NewSink]
    /\ declared = <<>>

Alive == exit = "running"

\* log.Println(text) by request r (0: main or the listener goroutine)
Println(r, kind, text) ==
    [logs EXCEPT ![r] = Append(@, [kind |-> kind, text |-> text])]

InFlight(q) == q.pc \notin {"idle", "done"}

\* the state of the Lifecycle Controller
Lifecycle ==
    IF exit # "running" THEN "Stopped"
    ELSE IF main \in {"Shutdown", "Draining", "Exit"}
         THEN "ShuttingDown"
    ELSE IF listener = "listening" THEN "Listening"
    ELSE "Starting"

(***************************************************************************)
(* main, statement by statement.                                           *)
(***************************************************************************)
ParseFilesOk ==
    /\ Alive /\ main = "ParseFiles"
    /\ main' = "LogListening"
    /\ UNCHANGED <<unit, listener, listenErr, notified, sigChan, signals, inShutdown,
                   timedOut, exit, req, logs, sigintListening>>

\* template.ParseFiles fails: log.Fatalln(err) logs and calls os.Exit(1)
ParseFilesFail ==
    /\ Alive /\ main = "ParseFiles"
    /\ logs' = Println(0, "Fatalln", "open index.html: no such file or directory")
    /\ exit' = "os.Exit(1)"
    /\ UNCHANGED <<unit, main, listener, listenErr, notified, sigChan, signals,
                   inShutdown, timedOut, req, sigintListening>>

LogListening ==
    /\ Alive /\ main = "LogListening"
    /\ logs' = Println(0, "Listening", "| Listening at port :8000")
    /\ main' = "GoListenAndServe"
    /\ UNCHANGED <<unit, listener, listenErr, notified, sigChan, signals, inShutdown,
                   timedOut, exit, req, sigintListening>>

\* go func() { ... srv.ListenAndServe() ... }()
GoListenAndServe ==
    /\ Alive /\ main = "GoListenAndServe"
    /\ listener' = "spawned"
    /\ main' = "Notify"
    /\ UNCHANGED <<unit, listenErr, notified, sigChan, signals, inShutdown, timedOut,
                   exit, req, logs, sigintListening>>

\* c := make(chan os.Signal, 1); signal.Notify(c, os.Interrupt)
Notify ==
    /\ Alive /\ main = "Notify"
    /\ notified' = TRUE
    /\ main' = "Receive"
    /\ UNCHANGED <<unit, listener, listenErr, sigChan, signals, inShutdown, timedOut,
                   exit, req, logs, sigintListening>>

\* <-c
Receive ==
    /\ Alive /\ main = "Receive"
    /\ sigChan > 0
    /\ sigChan' = sigChan - 1
    /\ main' = "Shutdown"
    /\ UNCHANGED <<unit, listener, listenErr, notified, signals, inShutdown, timedOut,
                   exit, req, logs, sigintListening>>

\* srv.Shutdown(ctx) is called: the listener is closed, and the call returns
\* at once when no connection is active
Shutdown ==
    /\ Alive /\ main = "Shutdown"
    /\ inShutdown' = TRUE
    /\ main' = IF \E r \in Requests : InFlight(req[r])
               THEN "Draining" ELSE "Exit"
    /\ UNCHANGED <<unit, listener, listenErr, notified, sigChan, signals, timedOut,
                   exit, req, logs, sigintListening>>

\* a shutdown that returns without waiting for the active connections
ShutdownReturnsAtOnce ==
    /\ Alive /\ main = "Draining"
    /\ main' = "Exit"
    /\ UNCHANGED <<unit, listener, listenErr, notified, sigChan, signals,
                   inShutdown, timedOut, exit, req, logs, sigintListening>>

\* srv.Shutdown(ctx) returns nil: every connection has become idle
ShutdownDrained ==
    /\ Alive /\ main = "Draining"
    /\ \A r \in Requests : ~InFlight(req[r])
    /\ main' = "Exit"
    /\ UNCHANGED <<unit, listener, listenErr, notified, sigChan, signals, inShutdown,
                   timedOut, exit, req, logs, sigintListening>>

\* srv.Shutdown(ctx) returns ctx.Err(): the 15 seconds of the context passed
ShutdownDeadline ==
    /\ Alive /\ main = "Draining"
    /\ timedOut' = TRUE
    /\ main' = "Exit"
    /\ UNCHANGED <<unit, listener, listenErr, notified, sigChan, signals, inShutdown,
                   exit, req, logs, sigintListening>>

\* log.Println("| Shutting down"); os.Exit(0)
Exit ==
    /\ Alive /\ main = "Exit"
    /\ logs' = Println(0, "ShuttingDown", "| Shutting down")
    /\ exit' = "os.Exit(0)"
    /\ UNCHANGED <<unit, main, listener, listenErr, notified, sigChan, signals,
                   inShutdown, timedOut, req, sigintListening>>

(***************************************************************************)
(* The goroutine of srv.ListenAndServe.                                    *)
(***************************************************************************)
\* the address is bound and the accept loop runs
ListenOk ==
    /\ Alive /\ listener = "spawned" /\ ~inShutdown
    /\ listener' = "listening"
    /\ UNCHANGED <<unit, main, listenErr, notified, sigChan, signals, inShutdown,
                   timedOut, exit, req, logs, sigintListening>>

\* if err := srv.ListenAndServe(); err != nil { log.Println(err) }
\* when net.Listen fails: the error is logged and the goroutine ends
ListenFail ==
    /\ Alive /\ listener = "spawned" /\ ~inShutdown
    /\ listener' = "returned"
    /\ listenErr' = "listen tcp 127.0.0.1:8000: bind: address already in use"
    /\ logs' = Println(0, "ListenErr", listenErr')
    /\ UNCHANGED <<unit, main, notified, sigChan, signals, inShutdown, timedOut, exit,
                   req, sigintListening>>

\* ... when ListenAndServe returns http.ErrServerClosed: Shutdown was called
\* before the goroutine ran, or while the accept loop was running
ServerClosed ==
    /\ Alive /\ listener \in {"spawned", "listening"} /\ inShutdown
    /\ listener' = "returned"
    /\ listenErr' = "http: Server closed"
    /\ logs' = Println(0, "ListenErr", listenErr')
    /\ UNCHANGED <<unit, main, notified, sigChan, signals, inShutdown, timedOut, exit,
                   req, sigintListening>>

(***************************************************************************)
(* The environment delivers SIGINT.  With signal.Notify in place the       *)
(* signal goes to c, by a send that does not block (a full c drops it);    *)
(* before that the Go runtime ends the process.                            *)
(***************************************************************************)
Sigint ==
    /\ Alive /\ signals < MaxSignals
    /\ signals' = signals + 1
    /\ IF notified
       THEN sigChan' = 1 /\ exit' = exit
       ELSE sigChan' = sigChan /\ exit' = "SIGINT"
    /\ sigintListening' = (sigintListening \/ Lifecycle = "Listening")
    /\ req' = [r \in Requests |->
                 IF InFlight(req[r])
                 THEN [req[r] EXCEPT !.sigAfterStart = TRUE] ELSE req[r]]
    /\ UNCHANGED <<unit, main, listener, listenErr, notified, inShutdown, timedOut,
                   logs>>

(***************************************************************************)
(* One request, served by its own goroutine.  q.depth is the middleware    *)
(* frame that runs next (entering) or returns next (leaving); the final    *)
(* handler runs below the last frame.  A routed handler is any function:   *)
(* it makes up to MaxOps calls on its ResponseWriter and then returns or   *)
(* panics (the handlers main registers write once and return, or, for      *)
(* /nil_pointer, panic at once).                                           *)
(***************************************************************************)
Frame(q) == Chain(q.route)[q.depth]

\* q.passed: the middleware frames entered so far
Descend(q) ==
    [q EXCEPT !.depth = @ + 1,
              !.passed = Append(@, Frame(q)),
              !.pc = IF q.depth = Len(Chain(q.route)) THEN "handler" ELSE "enter"]

\* the accept loop hands a request to the router, which picks its handler
ServeHTTP(r, method, path) ==
    /\ Alive /\ listener = "listening" /\ ~inShutdown
    /\ req[r].pc = "idle"
    /\ \A p \in Requests : p < r => req[p].pc # "idle"
    /\ req' = [req EXCEPT ![r] = [@ EXCEPT !.pc = "enter", !.method = method,
                                            !.path = path,
                                            !.route = Match(method, path),
                                            !.depth = 1]]
    /\ UNCHANGED <<unit, main, listener, listenErr, notified, sigChan, signals,
                   inShutdown, timedOut, exit, logs, sigintListening>>

\* RecoveryMiddleware: the deferred function is set, next.ServeHTTP(w, r)
RecoveryMiddleware(r) ==
    /\ Alive /\ req[r].pc = "enter" /\ Frame(req[r]) = "RecoveryMiddleware"
    /\ req' = [req EXCEPT ![r] = Descend(@)]
    /\ UNCHANGED <<unit, main, listener, listenErr, notified, sigChan, signals,
                   inShutdown, timedOut, exit, logs, sigintListening>>

\* a LoggerMiddleware that prints its line before it calls next.ServeHTTP
LoggerMiddlewareLogsFirst(r) ==
    /\ Alive /\ req[r].pc = "enter" /\ Frame(req[r]) = "LoggerMiddleware"
    /\ logs' = Println(r, "String",
                       String(SetPath(SetStatus(SetMethod(
                           NewRequestLoggerBuilder, req[r].method),
                           200), req[r].path)))
    /\ req' = [req EXCEPT ![r] = Descend(NewResponseRecorderWriter(@))]
    /\ UNCHANGED <<unit, main, listener, listenErr, notified, sigChan, signals,
                   inShutdown, timedOut, exit, sigintListening>>

\* LoggerMiddleware: start, the observer, next.ServeHTTP(writer, r)
LoggerMiddleware(r) ==
    /\ Alive /\ req[r].pc = "enter" /\ Frame(req[r]) = "LoggerMiddleware"
    /\ req' = [req EXCEPT ![r] = Descend(NewResponseRecorderWriter(@))]
    /\ UNCHANGED <<unit, main, listener, listenErr, notified, sigChan, signals,
                   inShutdown, timedOut, exit, logs, sigintListening>>

\* whether the final handler of q makes the call o next
MayCall(q, o) ==
    IF q.route = "routed"
    THEN q.ops < MaxOps /\ (o.op = "WriteHeader" => o.code \in HandlerCodes)
    ELSE /\ q.ops < Len(ErrorHandler(q.route))
         /\ ErrorHandler(q.route)[q.ops + 1] = o

MayReturn(q) ==
    q.route = "routed" \/ q.ops = Len(ErrorHandler(q.route))

\* the handler calls w.WriteHeader(code) on the observer
HandlerWriteHeader(r, code) ==
    /\ Alive /\ req[r].pc = "handler"
    /\ MayCall(req[r], [op |-> "WriteHeader", code |-> code])
    /\ req' = [req EXCEPT ![r] = [WriteHeader(@, code) EXCEPT !.ops = @ + 1]]
    /\ UNCHANGED <<unit, main, listener, listenErr, notified, sigChan, signals,
                   inShutdown, timedOut, exit, logs, sigintListening>>

\* the handler calls w.Write with some bytes
HandlerWrite(r) ==
    /\ Alive /\ req[r].pc = "handler"
    /\ MayCall(req[r], [op |-> "Write", code |-> 0])
    /\ req' = [req EXCEPT ![r] = [Write(@) EXCEPT !.ops = @ + 1]]
    /\ UNCHANGED <<unit, main, listener, listenErr, notified, sigChan, signals,
                   inShutdown, timedOut, exit, logs, sigintListening>>

HandlerReturn(r) ==
    /\ Alive /\ req[r].pc = "handler"
    /\ MayReturn(req[r])
    /\ req' = [req EXCEPT ![r] = [@ EXCEPT !.pc = "return", !.depth = @ - 1]]
    /\ UNCHANGED <<unit, main, listener, listenErr, notified, sigChan, signals,
                   inShutdown, timedOut, exit, logs, sigintListening>>

\* the innermost frame around the handler that defers a function (0: none):
\* a panic runs the deferred functions and passes the other frames by
Deferring(route) ==
    LET c == Chain(route)
        S == {i \in 1..Len(c) : c[i] = "RecoveryMiddleware"}
    IN IF S = {} THEN 0 ELSE CHOOSE i \in S : \A j \in S : j <= i

\* the handler panics with the value err
HandlerPanic(r, err) ==
    /\ Alive /\ req[r].pc = "handler"
    /\ req[r].route = "routed"
    /\ req' = [req EXCEPT ![r] = [@ EXCEPT !.pc = "panic",
                                            !.depth = Deferring(req[r].route),
                                            !.fault = err, !.faulted = TRUE]]
    /\ UNCHANGED <<unit, main, listener, listenErr, notified, sigChan, signals,
                   inShutdown, timedOut, exit, logs, sigintListening>>

\* LoggerMiddleware after next.ServeHTTP returned: the one log.Println
LoggerMiddlewareReturn(r, since) ==
    /\ Alive /\ req[r].pc = "return" /\ req[r].depth >= 1
    /\ Frame(req[r]) = "LoggerMiddleware"
    /\ logs' = Println(r, "String",
                       String(SetSince(SetPath(SetStatus(SetMethod(
                           NewRequestLoggerBuilder, req[r].method),
                           req[r].writer), req[r].path), since)))
    /\ req' = [req EXCEPT ![r] = [@ EXCEPT !.depth = @ - 1]]
    /\ UNCHANGED <<unit, main, listener, listenErr, notified, sigChan, signals,
                   inShutdown, timedOut, exit, sigintListening>>

\* a deferred function that logs the fault line outside its test of err
RecoveryMiddlewareReturnLogs(r) ==
    /\ Alive /\ req[r].pc = "return" /\ req[r].depth >= 1
    /\ Frame(req[r]) = "RecoveryMiddleware"
    /\ LET rl == SetPath(SetStatus(SetMethod(NewRequestLoggerBuilder,
                                             req[r].method), 500), req[r].path)
       IN logs' = Println(r, "PanicString", PanicString(rl, NoFault))
    /\ req' = [req EXCEPT ![r] = [@ EXCEPT !.depth = @ - 1]]
    /\ UNCHANGED <<unit, main, listener, listenErr, notified, sigChan, signals,
                   inShutdown, timedOut, exit, sigintListening>>

\* a deferred function that writes the status outside its test of err
RecoveryMiddlewareReturnWrites(r) ==
    /\ Alive /\ req[r].pc = "return" /\ req[r].depth >= 1
    /\ Frame(req[r]) = "RecoveryMiddleware"
    /\ req' = [req EXCEPT ![r] = [@ EXCEPT !.depth = @ - 1,
                                            !.sink = SinkWriteHeader(@, 500)]]
    /\ UNCHANGED <<unit, main, listener, listenErr, notified, sigChan, signals,
                   inShutdown, timedOut, exit, logs, sigintListening>>

\* the deferred function of RecoveryMiddleware when recover() returns nil
RecoveryMiddlewareReturn(r) ==
    /\ Alive /\ req[r].pc = "return" /\ req[r].depth >= 1
    /\ Frame(req[r]) = "RecoveryMiddleware"
    /\ req' = [req EXCEPT ![r] = [@ EXCEPT !.depth = @ - 1]]
    /\ UNCHANGED <<unit, main, listener, listenErr, notified, sigChan, signals,
                   inShutdown, timedOut, exit, logs, sigintListening>>

\* a deferred function that does not call recover(): the panic goes on
RecoveryMiddlewareNoRecover(r) ==
    /\ Alive /\ req[r].pc = "panic" /\ req[r].depth >= 1
    /\ Frame(req[r]) = "RecoveryMiddleware"
    /\ req' = [req EXCEPT ![r] = [@ EXCEPT !.depth = @ - 1]]
    /\ UNCHANGED <<unit, main, listener, listenErr, notified, sigChan, signals,
                   inShutdown, timedOut, exit, logs, sigintListening>>

\* the deferred function of RecoveryMiddleware when recover() returns the
\* panic value: the fault line, then w.WriteHeader(rl.GetStatus()) on the sink
RecoveryMiddlewareRecover(r) ==
    /\ Alive /\ req[r].pc = "panic" /\ req[r].depth >= 1
    /\ Frame(req[r]) = "RecoveryMiddleware"
    /\ LET rl == SetPath(SetStatus(SetMethod(NewRequestLoggerBuilder,
                                             req[r].method), 500), req[r].path)
       IN /\ logs' = Println(r, "PanicString", PanicString(rl, req[r].fault))
          /\ req' = [req EXCEPT ![r] =
                       [@ EXCEPT !.pc = "return", !.depth = @ - 1,
                                 !.fault = NoFault, !.recovered = @ + 1,
                                 !.sink = SinkWriteHeader(req[r].sink, rl.status)]]
    /\ UNCHANGED <<unit, main, listener, listenErr, notified, sigChan, signals,
                   inShutdown, timedOut, exit, sigintListening>>

\* the handler chain has returned: the server finishes the response and the
\* connection becomes idle
FinishRequest(r) ==
    /\ Alive /\ req[r].pc = "return" /\ req[r].depth = 0
    /\ req' = [req EXCEPT ![r] = [@ EXCEPT !.pc = "done",
                                            !.sink = SinkFinish(@),
                                            !.sigAfterStart = FALSE]]
    /\ UNCHANGED <<unit, main, listener, listenErr, notified, sigChan, signals,
                   inShutdown, timedOut, exit, logs, sigintListening>>

Next ==
    \/ ParseFilesOk
    \/ ParseFilesFail
    \/ LogListening
    \/ GoListenAndServe
    \/ Notify
    \/ Receive
    \/ Shutdown
    \/ ShutdownDrained
    \/ ShutdownDeadline
    \/ Exit
    \/ ListenOk
    \/ ListenFail
    \/ ServerClosed
    \/ Sigint
    \/ \E r \in Requests, method \in Methods, path \in Paths :
           ServeHTTP(r, method, path)
    \/ \E r \in Requests : RecoveryMiddleware(r)
    \/ \E r \in Requests : LoggerMiddleware(r)
    \/ \E r \in Requests, code \in HandlerCodes \cup {404, 405} :
           HandlerWriteHeader(r, code)
    \/ \E r \in Requests : HandlerWrite(r)
    \/ \E r \in Requests : HandlerReturn(r)
    \/ \E r \in Requests, err \in Faults : HandlerPanic(r, err)
    \/ \E r \in Requests, since \in Durations : LoggerMiddlewareReturn(r, since)
    \/ \E r \in Requests : RecoveryMiddlewareReturn(r)
    \/ \E r \in Requests : RecoveryMiddlewareRecover(r)
    \/ \E r \in Requests : FinishRequest(r)

Spec == Init /\ [][Next]_vars

(***************************************************************************)
(* The RequestLogger on its own: any sequence of setters on a new builder, *)
(* then one rendering; the builder is discarded after it.                  *)
(***************************************************************************)
PadValues == LoggerMethods \cup {"", "200", "52.3~us", "1.5s", "2562047h47m16.854775807s"}

BuilderNew ==
    /\ rendered # NoLine
    /\ builder' = NewRequestLoggerBuilder
    /\ setters' = {}
    /\ rendered' = NoLine
    /\ UNCHANGED <<main, listener, listenErr, notified, sigChan, signals,
                   inShutdown, timedOut, exit, req, logs, sigintListening,
                   recorder, declared>>

BuilderSetMethod(method) ==
    /\ rendered = NoLine
    /\ builder' = SetMethod(builder, method)
    /\ setters' = setters \cup {"SetMethod"}
    /\ UNCHANGED <<main, listener, listenErr, notified, sigChan, signals,
                   inShutdown, timedOut, exit, req, logs, sigintListening,
                   rendered, recorder, declared>>

BuilderSetPath(path) ==
    /\ rendered = NoLine
    /\ builder' = SetPath(builder, path)
    /\ setters' = setters \cup {"SetPath"}
    /\ UNCHANGED <<main, listener, listenErr, notified, sigChan, signals,
                   inShutdown, timedOut, exit, req, logs, sigintListening,
                   rendered, recorder, declared>>

BuilderSetSince(since) ==
    /\ rendered = NoLine
    /\ builder' = SetSince(builder, since)
    /\ setters' = setters \cup {"SetSince"}
    /\ UNCHANGED <<main, listener, listenErr, notified, sigChan, signals,
                   inShutdown, timedOut, exit, req, logs, sigintListening,
                   rendered, recorder, declared>>

BuilderSetStatus(status) ==
    /\ rendered = NoLine
    /\ builder' = SetStatus(builder, status)
    /\ setters' = setters \cup {"SetStatus"}
    /\ UNCHANGED <<main, listener, listenErr, notified, sigChan, signals,
                   inShutdown, timedOut, exit, req, logs, sigintListening,
                   rendered, recorder, declared>>

BuilderString ==
    /\ rendered = NoLine
    /\ rendered' = [NoLine EXCEPT !.op = "String", !.text = String(builder)]
    /\ UNCHANGED <<main, listener, listenErr, notified, sigChan, signals,
                   inShutdown, timedOut, exit, req, logs, sigintListening,
                   builder, setters, recorder, declared>>

BuilderPanicString(err) ==
    /\ rendered = NoLine
    /\ rendered' = [NoLine EXCEPT !.op = "PanicString", !.err = err,
                                  !.text = PanicString(builder, err)]
    /\ UNCHANGED <<main, listener, listenErr, notified, sigChan, signals,
                   inShutdown, timedOut, exit, req, logs, sigintListening,
                   builder, setters, recorder, declared>>

BuilderPad(padding, value) ==
    /\ rendered = NoLine
    /\ rendered' = [NoLine EXCEPT !.op = "pad", !.padding = padding,
                                  !.value = value, !.text = pad(padding, value)]
    /\ UNCHANGED <<main, listener, listenErr, notified, sigChan, signals,
                   inShutdown, timedOut, exit, req, logs, sigintListening,
                   builder, setters, recorder, declared>>

BuilderPadAndColor(padding, value) ==
    /\ rendered = NoLine
    /\ rendered' = [NoLine EXCEPT !.op = "padAndColor", !.padding = padding,
                                  !.value = value,
                                  !.text = padAndColor(builder, padding, value)]
    /\ UNCHANGED <<main, listener, listenErr, notified, sigChan, signals,
                   inShutdown, timedOut, exit, req, logs, sigintListening,
                   builder, setters, recorder, declared>>

\* strepeater(l, v) of the LoggingMiddleware in src/main.go
LoggingMiddlewareStrepeater(l, v) ==
    /\ rendered = NoLine
    /\ rendered' = [NoLine EXCEPT !.op = "strepeater", !.padding = l,
                                  !.value = v, !.text = strepeater(l, v)]
    /\ UNCHANGED <<main, listener, listenErr, notified, sigChan, signals,
                   inShutdown, timedOut, exit, req, logs, sigintListening,
                   builder, setters, recorder, declared>>

NextLogger ==
    \/ BuilderNew
    \/ \E method \in LoggerMethods : BuilderSetMethod(method)
    \/ \E path \in LoggerPaths : BuilderSetPath(path)
    \/ \E since \in LoggerDurations : BuilderSetSince(since)
    \/ \E status \in Statuses : BuilderSetStatus(status)
    \/ BuilderString
    \/ \E err \in PanicValues : BuilderPanicString(err)
    \/ \E padding \in Paddings, value \in PadValues : BuilderPad(padding, value)
    \/ \E padding \in Paddings, value \in PadValues :
           BuilderPadAndColor(padding, value)
    \/ \E l \in Paddings, v \in PadValues : LoggingMiddlewareStrepeater(l, v)

SpecLogger == Init /\ [][NextLogger]_vars

(***************************************************************************)
(* The ResponseRecorderWriter on its own: LoggerMiddleware builds it with   *)
(* Status 200 around a sink, and a handler makes any calls on it.          *)
(***************************************************************************)
ObserverNew ==
    /\ recorder' = NewResponseRecorderWriter([writer |-> 0, sink |-> NewSink])
    /\ declared' = <<>>
    /\ UNCHANGED <<main, listener, listenErr, notified, sigChan, signals,
                   inShutdown, timedOut, exit, req, logs, sigintListening,
                   builder, setters, rendered>>

ObserverWriteHeader(status) ==
    /\ recorder.writer # 0
    /\ Len(declared) + recorder.sink.body < MaxCalls
    /\ recorder' = WriteHeader(recorder, status)
    /\ declared' = Append(declared, status)
    /\ UNCHANGED <<main, listener, listenErr, notified, sigChan, signals,
                   inShutdown, timedOut, exit, req, logs, sigintListening,
                   builder, setters, rendered>>

ObserverWrite ==
    /\ recorder.writer # 0
    /\ Len(declared) + recorder.sink.body < MaxCalls
    /\ recorder' = Write(recorder)
    /\ UNCHANGED <<main, listener, listenErr, notified, sigChan, signals,
                   inShutdown, timedOut, exit, req, logs, sigintListening,
                   builder, setters, rendered, declared>>

NextObserver ==
    \/ ObserverNew
    \/ \E status \in ObserverCodes : ObserverWriteHeader(status)
    \/ ObserverWrite

SpecObserver == Init /\ [][NextObserver]_vars

(***************************************************************************)
(* Properties.                                                             *)
(***************************************************************************)
Accepted(r) == req[r].pc # "idle"

Finished(r) == req[r].pc = "done"

\* the text of the only line of request r
OnlyLine(r) == logs[r][1].text

\* the steady-state line, written out field by field
SteadyLine(method, status, color, since, path) ==
    "| " \o color \o method \o Repeat(" ", 7 - Len(method)) \o colors.Reset
    \o " | " \o color \o status \o colors.Reset
    \o " | " \o since
    \o " | " \o path

\* the fault line, written out field by field
FaultLine(method, path, description) ==
    "| " \o colors.Red \o method \o Repeat(" ", 7 - Len(method)) \o colors.Reset
    \o " | " \o colors.Red \o "500" \o colors.Reset
    \o " |" \o Repeat(" ", 13) \o "| " \o path
    \o " " \o colors.Red \o description \o colors.Reset

\* C1, as claimed: every accepted request has exactly one log line once it
\* has been answered or the process has ended by the graceful shutdown
\* (os.Exit(0)), whatever the interleaving with the shutdown.
C1_ExactlyOneLinePerAcceptedRequest ==
    \A r \in Requests :
        (Accepted(r) /\ (Finished(r) \/ exit = "os.Exit(0)"))
            => Len(logs[r]) = 1

\* C1, amended: no request ever has two log lines, a request has none before
\* it is accepted, and every request whose handling has finished (normal
\* return or recovered fault) has exactly one; a request still in flight
\* when the process ends may have none.
C1_OneLinePerFinishedRequest ==
    \A r \in Requests :
        /\ Len(logs[r]) <= 1
        /\ ~Accepted(r) => Len(logs[r]) = 0
        /\ Finished(r) => Len(logs[r]) = 1

C1_Witness ==
    /\ Finished(1) /\ req[1].faulted /\ Len(logs[1]) = 1
    /\ Finished(2) /\ ~req[2].faulted /\ Len(logs[2]) = 1

\* C2: a panic of the handler is pending only at the frame of
\* RecoveryMiddleware, never above it; the step that recovers it is the
\* first and only recovery of that request, turns the panic into a normal
\* return, and changes neither another request nor the lifecycle (main, the
\* listener, the signal state, the process); a faulted request that was
\* answered was recovered exactly once.
C2_FaultCaughtOnceAtRecovery ==
    /\ [](\A r \in Requests :
             /\ req[r].pc = "panic" =>
                    /\ req[r].depth >= 1
                    /\ Frame(req[r]) = "RecoveryMiddleware"
                    /\ req[r].recovered = 0
             /\ req[r].recovered <= 1
             /\ (Finished(r) /\ req[r].faulted) => req[r].recovered = 1)
    /\ [][\A r \in Requests :
             (req[r].pc = "panic" /\ req'[r].pc # "panic") =>
                 /\ req'[r].pc = "return"
                 /\ req'[r].recovered = 1
                 /\ \A o \in Requests \ {r} : req'[o] = req[o]
                 /\ UNCHANGED <<main, listener, listenErr, notified, sigChan,
                                signals, inShutdown, timedOut, exit>>]_vars

C2_Witness ==
    /\ Alive
    /\ Finished(1) /\ req[1].faulted /\ req[1].recovered = 1
    /\ req[2].pc = "handler"

\* C3, as claimed: every answered request whose handler faulted was sent
\* status 500 and no body bytes.
C3_FaultedRequestGets500EmptyBody ==
    \A r \in Requests :
        (Finished(r) /\ req[r].faulted) =>
            req[r].sink.status = 500 /\ req[r].sink.body = 0

\* C4, as claimed: for every request that completed normally, the status in
\* its log line is the status the sink sent to the client.
C4_LoggedStatusIsSentStatus ==
    \A r \in Requests :
        (Finished(r) /\ ~req[r].faulted) =>
            \E since \in Durations :
                logs[r] = << [kind |-> "String",
                              text |-> String(SetSince(SetPath(SetStatus(SetMethod(
                                  NewRequestLoggerBuilder, req[r].method),
                                  req[r].sink.status), req[r].path), since))] >>

\* C5: a request whose handler faulted has no line while the panic is
\* pending and, from its recovery on, exactly the one fault line: status 500,
\* a blank elapsed column, the path and the fault's description, all in the
\* server-fault colour; it has no String() line.
C5_FaultLineOnly ==
    \A r \in Requests :
        req[r].faulted =>
            IF req[r].pc = "panic"
            THEN logs[r] = <<>>
            ELSE /\ Len(logs[r]) = 1
                 /\ logs[r][1].kind = "PanicString"
                 /\ \E f \in Faults :
                        OnlyLine(r) = FaultLine(req[r].method, req[r].path,
                                               IF f.isError THEN f.msg
                                               ELSE "Unknown")

C5_Witness ==
    \E r \in Requests :
        /\ Finished(r) /\ req[r].faulted
        /\ OnlyLine(r) = FaultLine("GET", "/nil_pointer", NilDereference.msg)

\* C6, as claimed: when the process has ended and a SIGINT had arrived while
\* request r was being processed, then r was answered, unless the shutdown
\* deadline elapsed.
C6_InFlightRequestAnsweredBeforeExit ==
    \A r \in Requests :
        (exit # "running" /\ req[r].sigAfterStart /\ ~timedOut) => ~InFlight(req[r])

\* C7, as claimed (its safety part): a process that has ended after a SIGINT
\* was delivered while the server was Listening has ended by os.Exit(0).
C7_SigintWhileListeningExitsZero ==
    (exit # "running" /\ sigintListening) => exit = "os.Exit(0)"

\* C8, as claimed: the lifecycle state changes only from Starting to
\* Listening, from Listening to ShuttingDown on receipt of the signal from c,
\* and from ShuttingDown to Stopped.  (A process that ends while Starting,
\* by the fatal startup error or by a signal before any setup, is left out.)
C8_LifecycleAdvancesInOrder ==
    [][\/ Lifecycle' = Lifecycle
       \/ Lifecycle = "Starting" /\ Lifecycle' = "Listening"
       \/ Lifecycle = "Listening" /\ Lifecycle' = "ShuttingDown"
              /\ sigChan' = sigChan - 1
       \/ Lifecycle = "ShuttingDown" /\ Lifecycle' = "Stopped"
       \/ Lifecycle = "Starting" /\ Lifecycle' = "Stopped"]_vars

\* C9, as claimed: once a listen/bind failure has been logged the process
\* has terminated (it does not go on to wait for a signal).
C9_ListenFailureTerminates ==
    (listener = "returned" /\ listenErr # "http: Server closed")
        => exit # "running"

\* C10: an answered request for an undefined path was sent 404, an answered
\* GET on the POST/PUT route was sent 405, and each has exactly one log line,
\* the steady-state line carrying that status in the client-fault colour.
C10_ErrorRoutes ==
    \A r \in Requests :
        /\ (Finished(r) /\ req[r].path = "/missing") =>
               /\ req[r].sink.status = 404
               /\ logs[r] = << [kind |-> "String",
                                text |-> SteadyLine(req[r].method, "404",
                                            colors.Magenta, "52.3~us     ",
                                            "/missing")] >>
        /\ (Finished(r) /\ req[r].path = "/get_not_allowed"
                /\ req[r].method = "GET") =>
               /\ req[r].sink.status = 405
               /\ logs[r] = << [kind |-> "String",
                                text |-> SteadyLine("GET", "405",
                                            colors.Magenta, "52.3~us     ",
                                            "/get_not_allowed")] >>

C10_Witness ==
    /\ Finished(1) /\ req[1].path = "/missing" /\ req[1].sink.status = 404
    /\ Finished(2) /\ req[2].path = "/get_not_allowed"
    /\ req[2].sink.status = 405

\* the colour of each of the five status classes
ClassColor(s) ==
    IF s \in 100..199 THEN colors.Cyan          \* informational
    ELSE IF s \in 200..299 THEN colors.Green    \* success
    ELSE IF s \in 300..399 THEN colors.Yellow   \* redirect
    ELSE IF s \in 400..499 THEN colors.Magenta  \* client fault
    ELSE colors.Red                             \* server fault

\* C11: the five classes have five different colours; once SetStatus(s) was
\* called the builder's colour is the colour of the class of s (100..199,
\* 200..299, 300..399, 400..499, every other integer), whatever the other
\* setters and their order, and String() renders the line in that colour.
C11_ColorPartitions ==
    /\ Cardinality({ClassColor(99), ClassColor(199), ClassColor(299),
                    ClassColor(399), ClassColor(499)}) = 5
    /\ "SetStatus" \in setters =>
           /\ builder.color = ClassColor(builder.status)
           /\ rendered.op = "String" =>
                  rendered.text =
                      SteadyLine(builder.method, SprintInt(builder.status),
                                 ClassColor(builder.status),
                                 pad(12, SprintDuration(builder.since)),
                                 builder.path)

C11_Witness ==
    /\ "SetStatus" \in setters /\ builder.status = 200
    /\ builder.color = colors.Green /\ builder.color # ClassColor(199)
    /\ rendered.op = "String"

\* t is v followed by spaces only, up to the length max(len(v), w)
PaddedTo(t, w, v) ==
    /\ Len(t) = (IF Len(v) >= w THEN Len(v) ELSE w)
    /\ SubSeq(t, 1, Len(v)) = v
    /\ \A i \in (Len(v) + 1)..Len(t) : SubSeq(t, i, i) = " "
    /\ Len(v) >= w => t = v

\* C12: pad(w, v) and strepeater(w, v) return v unchanged followed by spaces
\* only, of length max(len(v), w): a value as long as the width or longer
\* comes back as it is; padAndColor puts exactly that between the colour and
\* the reset marker, and String() renders the method so (width 7).
C12_PaddingNonDestructive ==
    /\ rendered.op \in {"pad", "strepeater"} =>
           PaddedTo(rendered.text, rendered.padding, rendered.value)
    /\ rendered.op = "padAndColor" =>
           LET c == Len(builder.color)
               n == Len(rendered.text) - Len(colors.Reset)
           IN /\ SubSeq(rendered.text, 1, c) = builder.color
              /\ SubSeq(rendered.text, n + 1, Len(rendered.text)) = colors.Reset
              /\ PaddedTo(SubSeq(rendered.text, c + 1, n), rendered.padding,
                          rendered.value)
    /\ rendered.op = "String" =>
           LET c == Len(builder.color)
               m == Len(builder.method)
               n == 2 + c + (IF m >= 7 THEN m ELSE 7)
           IN /\ PaddedTo(SubSeq(rendered.text, 3 + c, n), 7, builder.method)
              /\ SubSeq(rendered.text, n + 1, n + Len(colors.Reset) + 3)
                     = colors.Reset \o " | "

C12_Witness ==
    /\ rendered.op = "pad" /\ rendered.padding = 7
    /\ rendered.value = "PROPFIND" /\ rendered.text = "PROPFIND"

\* the fault line of the builder b with the given description
FaultLineOf(b, description) ==
    "| " \o b.color \o b.method \o Repeat(" ", 7 - Len(b.method)) \o colors.Reset
    \o " | " \o b.color \o SprintInt(b.status) \o colors.Reset
    \o " |" \o Repeat(" ", 13) \o "| " \o b.path
    \o " " \o b.color \o description \o colors.Reset

\* C13, as claimed: the description PanicString prints for the value err is
\* the message of err when err is an error and "Unknown" for any other
\* value, and it is never empty.
C13_FaultDescription ==
    rendered.op = "PanicString" =>
        LET description == IF rendered.err.isError THEN rendered.err.msg
                           ELSE "Unknown"
        IN /\ rendered.text = FaultLineOf(builder, description)
           /\ description # ""

\* C14: for a request that entered RecoveryMiddleware and whose handler has
\* not faulted, the sink has received the calls of the handler and nothing
\* else, no fault line exists, and once the chain has returned the log holds
\* exactly the one String() line of LoggerMiddleware with the status the
\* observer recorded: what LoggerMiddleware around the handler produces.
C14_RecoveryPassthrough ==
    \A r \in Requests :
        (Accepted(r) /\ req[r].passed # <<>>
             /\ req[r].passed[1] = "RecoveryMiddleware" /\ ~req[r].faulted) =>
            /\ Len(req[r].sink.received) + req[r].sink.body = req[r].ops
            /\ \A i \in 1..Len(logs[r]) : logs[r][i].kind # "PanicString"
            /\ (req[r].pc = "handler" \/ req[r].pc = "enter") => logs[r] = <<>>
            /\ (Finished(r) \/ (req[r].pc = "return" /\ req[r].depth <= 1)) =>
                   \E since \in Durations :
                       logs[r] = << [kind |-> "String",
                                     text |-> SteadyLine(req[r].method,
                                         SprintInt(req[r].writer),
                                         ClassColor(req[r].writer),
                                         pad(12, SprintDuration(since)),
                                         req[r].path)] >>

C14_Witness ==
    /\ Finished(1) /\ ~req[1].faulted
    /\ req[1].passed = <<"RecoveryMiddleware", "LoggerMiddleware">>
    /\ req[1].ops = 2 /\ req[1].sink.body = 1 /\ req[1].sink.received = <<404>>
    /\ Len(logs[1]) = 1

\* C15: after the WriteHeader calls c1..cn on an observer, mixed with any
\* Write calls, its Status is cn (200 when n = 0), the sink has received
\* exactly c1..cn in that order, and the sink has taken every body write.
C15_ObserverRecordsLast ==
    recorder.writer # 0 =>
        /\ recorder.writer = (IF declared = <<>> THEN 200
                              ELSE declared[Len(declared)])
        /\ recorder.sink.received = declared
        /\ recorder.sink.wroteHeader <=>
               (declared # <<>> \/ recorder.sink.body > 0)

C15_Witness ==
    /\ declared = <<404, 500>> /\ recorder.writer = 500
    /\ recorder.sink.received = <<404, 500>>
    /\ recorder.sink.status = 200 /\ recorder.sink.body = 2

\* C16, as claimed: whatever setters were called, also none, String() and
\* PanicString() render with the colour GetStatusColor gives for the current
\* status: the server-fault colour for a builder whose status was never set.
C16_ColorFollowsStatus ==
    /\ rendered.op = "String" =>
           rendered.text =
               SteadyLine(builder.method, SprintInt(builder.status),
                          GetStatusColor(builder.status),
                          pad(12, SprintDuration(builder.since)), builder.path)
    /\ rendered.op = "PanicString" =>
           rendered.text =
               FaultLineOf([builder EXCEPT !.color = GetStatusColor(builder.status)],
                           IF rendered.err.isError THEN rendered.err.msg
                           ELSE "Unknown")

\* RecoveryMiddleware has observed the completion of its downstream call:
\* its deferred function has run (recover() returned nil or the fault)
RecoveryObserved(q) ==
    q.pc = "done" \/ (q.pc = "return" /\ q.depth = 0)

\* C17, as claimed: a request that runs under RecoveryMiddleware has a log
\* line only when RecoveryMiddleware has observed the completion of the
\* downstream call, on the normal and on the fault path.
C17_LineOnlyAfterRecoveryObserved ==
    \A r \in Requests :
        (req[r].route = "routed" /\ logs[r] # <<>>) => RecoveryObserved(req[r])

\* C17, amended: a request that runs under RecoveryMiddleware has no line
\* before its final handler has completed.  On the fault path the line
\* exists exactly when RecoveryMiddleware has trapped the fault.  On the
\* normal path LoggerMiddleware emits the line before the call returns to
\* RecoveryMiddleware: the line exists while RecoveryMiddleware has not yet
\* observed the completion.
C17_LineAfterHandlerCompletion ==
    \A r \in Requests :
        req[r].route = "routed" =>
            /\ req[r].pc \in {"idle", "enter", "handler", "panic"} =>
                   logs[r] = <<>>
            /\ req[r].faulted =>
                   (logs[r] # <<>> <=>
                        (req[r].recovered = 1 /\ RecoveryObserved(req[r])))
            /\ (~req[r].faulted /\ req[r].pc = "return") =>
                   IF req[r].depth = 2
                   THEN Frame(req[r]) = "LoggerMiddleware" /\ logs[r] = <<>>
                   ELSE /\ Len(logs[r]) = 1 /\ logs[r][1].kind = "String"
                        /\ req[r].depth = 1 =>
                               /\ Frame(req[r]) = "RecoveryMiddleware"
                               /\ ~RecoveryObserved(req[r])

C17_Witness ==
    /\ req[1].route = "routed" /\ ~req[1].faulted
    /\ req[1].pc = "return" /\ req[1].depth = 1 /\ Len(logs[1]) = 1
    /\ req[2].route = "routed" /\ req[2].faulted /\ req[2].recovered = 1
    /\ Len(logs[2]) = 1

\* what the shutdown leaves alone: a step of main changes no request, a
\* request leaves the handling only by completing it, and the process ends
\* with a request in flight only after the deadline of Shutdown has passed
NoCancellation(r) ==
    /\ main' # main => req'[r] = req[r]
    /\ (InFlight(req[r]) /\ ~InFlight(req'[r])) => req'[r].pc = "done"
    /\ (Lifecycle' = "Stopped" /\ InFlight(req[r])) => timedOut

\* C18, as claimed: from the moment the controller is ShuttingDown (the
\* signal was received from c) no request starts being handled, and no
\* request in flight is cancelled: it completes, or is abandoned when the
\* process exits after the deadline.
C18_ShuttingDownStartsNoRequest ==
    [][\A r \in Requests :
           Lifecycle = "ShuttingDown" =>
               /\ req[r].pc = "idle" => req'[r].pc = "idle"
               /\ NoCancellation(r)]_vars

\* C18, amended: from the moment srv.Shutdown has been called no request
\* starts being handled (between the receipt of the signal and that call
\* the listener still accepts), and from the receipt of the signal on no
\* request in flight is cancelled: it completes, or is abandoned when the
\* process exits after the deadline.
C18_ShutdownStartsNoRequest ==
    [][\A r \in Requests :
           /\ (inShutdown /\ req[r].pc = "idle") => req'[r].pc = "idle"
           /\ Lifecycle = "ShuttingDown" => NoCancellation(r)]_vars

C18_Witness ==
    /\ Alive /\ inShutdown /\ main = "Draining"
    /\ req[1].pc = "return" /\ req[1].sigAfterStart
    /\ req[2].pc = "idle"

\* C19, as claimed: whatever its path and method, a request that has reached
\* its final handler (or has gone beyond it) entered RecoveryMiddleware
\* first and LoggerMiddleware second, so its handler runs inside the fault
\* trap.
C19_EveryRequestPassesRecoveryThenLogger ==
    \A r \in Requests :
        req[r].pc \in {"handler", "panic", "return", "done"} =>
            req[r].passed = <<"RecoveryMiddleware", "LoggerMiddleware">>

=============================================================================
